---------------------------- MODULE Spec2Model ----------------------------
(***************************************************************************)
(* The two simultaneous-fit scripts of the repository, src/fit_global.py   *)
(* (two categories) and src/Models/Model7_pythonfiles/fit_global_model7.py *)
(* (four categories), as straight-line programs run by one interpreter.    *)
(*                                                                         *)
(* Each script is a sequence of blocks; a block is the list of its         *)
(* statements, transcribed from the source in source order, and one        *)
(* action runs one block.  The Python namespace (ns) maps an identifier to *)
(* the object it is bound to at that moment, so that a read of an unbound  *)
(* identifier is a NameError and a rebinding (mean, twice) leaves the      *)
(* first object alive in whatever already holds it.                        *)
(*                                                                         *)
(* Real values are held in thousandths (1865 is 1865000, 0.18 is 180).     *)
(***************************************************************************)
EXTENDS Integers, Sequences, FiniteSets, TLC

VARIABLES
    script,     \* which script runs: "fit_global" or "model7"
    args,       \* the parsed command line (argparse.Namespace)
    disk,       \* which input files exist and how many entries they hold
    pc,         \* the block to run next; "done" and "error" are final
    err,        \* the exception that ended the run, "" when none
    ns,         \* module namespace: identifier -> [k: kind, i: index]
    params,     \* every RooRealVar constructed, in construction order
    pdfs,       \* every pdf constructed (shapes and RooAddPdf)
    chains,     \* every TChain constructed: the files added to it
    datas,      \* every RooDataHist built from a chain's histogram
    cat,        \* RooCategory binned_sample: the labels defined, in order
    sim,        \* RooSimultaneous: the (label, pdf) pairs added
    imp,        \* the (label, dataset) pairs imported into simultaneous_data
    loopIdx,    \* iterations of the loading loop already run (Model7)
    fit,        \* the fit driver: calls made, status, covariance quality,
                \* the integrator configuration of the fitted model
    out,        \* stdout events: what was printed
    exp,        \* the export lists built after the fit (names, values, errors)
    file        \* fit_parameters.txt: its lines, or <<>> when not yet written

vars == <<script, args, disk, pc, err, ns, params, pdfs, chains, datas,
          cat, sim, imp, loopIdx, fit, out, exp, file>>

Milli == 10 * 100

----------------------------------------------------------------------------
(* Bounds of the model.                                                    *)

\* Sizes run from 10 to 10 * MaxSizeSteps (the script accepts up to 800).
MaxSizeSteps == 2
\* The input files' contents are drawn from profiles 0 .. MaxDisk.
MaxDisk == 2
\* The minimizer's end points are drawn from patterns 0 .. MaxPattern.
MaxPattern == 2
\* The strings handed to size_argument have at most MaxLen characters.
MaxLen == 3
\* The integers handed to generate_list run from -MaxArg to MaxArg.
MaxArg == 45
\* get_chi2 is run on 1 .. MaxBins bins (the plotting script reads ten).
MaxBins == 3
\* The minimizer calls get_chi2 at most MaxCalls times.
MaxCalls == 2

----------------------------------------------------------------------------
(* Text.                                                                   *)

Abs(a) == IF a < 0 THEN -a ELSE a

\* str.startswith
StartsWith(s, p) == Len(s) >= Len(p) /\ SubSeq(s, 1, Len(p)) = p

\* str.endswith
EndsWith(s, p) ==
    Len(s) >= Len(p) /\ SubSeq(s, Len(s) - Len(p) + 1, Len(s)) = p

RECURSIVE StripZeros(_)
\* Trailing zeros of a digit string removed.
StripZeros(s) ==
    IF Len(s) > 0 /\ SubSeq(s, Len(s), Len(s)) = "0"
    THEN StripZeros(SubSeq(s, 1, Len(s) - 1))
    ELSE s

RECURSIVE ZeroPadLeft(_, _)
ZeroPadLeft(s, n) == IF Len(s) >= n THEN s ELSE ZeroPadLeft("0" \o s, n)

RECURSIVE ZeroPadRight(_, _)
ZeroPadRight(s, n) == IF Len(s) >= n THEN s ELSE ZeroPadRight(s \o "0", n)

\* Mutant: the value cut to one decimal, as f"{value:.1f}" would.
PyFloatTruncated(v) ==
    (IF v < 0 THEN "-" ELSE "") \o ToString(Abs(v) \div Milli) \o "."
        \o SubSeq(ZeroPadLeft(ToString(Abs(v) % Milli), 3), 1, 1)

\* f"{value}" of a Python float: repr, the shortest decimal that reads back,
\* with at least one digit after the point.  v is in thousandths.
PyFloatStr(v) ==
    LET frac == StripZeros(ZeroPadLeft(ToString(Abs(v) % Milli), 3))
    IN  (IF v < 0 THEN "-" ELSE "") \o ToString(Abs(v) \div Milli) \o "."
            \o (IF frac = "" THEN "0" ELSE frac)

\* numpy.savetxt's default fmt '%.18e': d.dddddddddddddddddde+XX.
\* v is in thousandths.
SciStr(v) ==
    LET d == ToString(Abs(v))
        e == Len(d) - 4
    IN  IF v = 0 THEN "0.000000000000000000e+00"
        ELSE (IF v < 0 THEN "-" ELSE "") \o SubSeq(d, 1, 1) \o "."
                \o ZeroPadRight(SubSeq(d, 2, Len(d)), 18)
                \o "e" \o (IF e < 0 THEN "-" ELSE "+")
                \o ZeroPadLeft(ToString(Abs(e)), 2)

----------------------------------------------------------------------------
(* Objects.                                                                *)

Ref(k, i) == [k |-> k, i |-> i]

Bind(n, py, ref) ==
    [x \in (DOMAIN n) \cup {py} |-> IF x = py THEN ref ELSE n[x]]

Bound(n, py) == py \in DOMAIN n

RECURSIVE AllBound(_, _)
AllBound(n, pys) ==
    pys = <<>> \/ (Bound(n, Head(pys)) /\ AllBound(n, Tail(pys)))

\* The indices the identifiers of pys are bound to.
Resolve(n, pys) == [j \in 1..Len(pys) |-> n[pys[j]].i]

SeqRange(s) == {s[j] : j \in 1..Len(s)}

RECURSIVE SumSeq(_)
SumSeq(s) == IF s = <<>> THEN 0 ELSE Head(s) + SumSeq(Tail(s))

----------------------------------------------------------------------------
(* The input files.  disk = 0: every input file is missing or empty (a     *)
(* TChain accepts the name and holds no entries).  disk = d > 0: a file    *)
(* holds d, 2d, ... or 7d entries, by its path, so that the files of the   *)
(* four categories of one run hold different numbers of entries.           *)

FileEntries(d, path) == IF d = 0 THEN 0 ELSE d * (1 + (Len(path) % 7))

\* TChain.GetEntries: the entries of every file added, a file added twice
\* counted twice.
GetEntries(d, files) ==
    SumSeq([j \in 1..Len(files) |-> FileEntries(d, files[j])])

----------------------------------------------------------------------------
(* Statements.  A machine state m is the record of the variables a         *)
(* statement can change; Step runs one statement, Exec a block.  Once      *)
(* m.err is set the rest of the block is skipped: the exception has left   *)
(* the script.                                                             *)

Machine ==
    [ns |-> ns, params |-> params, pdfs |-> pdfs, chains |-> chains,
     datas |-> datas, cat |-> cat, sim |-> sim, imp |-> imp, err |-> err]

NameError(m) == [m EXCEPT !.err = "NameError"]

\* py = TChain("D02Kpi_Tuple/DecayTree")
DoChain(m, s) ==
    [m EXCEPT !.chains = Append(@, <<>>),
              !.ns = Bind(@, s.py, Ref("chain", Len(m.chains) + 1))]

\* py.Add(path); py.SetBranchStatus(...)
DoAdd(m, s) ==
    IF ~Bound(m.ns, s.py) THEN NameError(m)
    ELSE [m EXCEPT !.chains[m.ns[s.py].i] = Append(@, s.path)]

\* py = RooRealVar(name, title, init, lo, hi)
DoVar(m, s) ==
    [m EXCEPT !.params = Append(@, [name |-> s.name, val |-> s.init,
                                    lo |-> s.lo, hi |-> s.hi, error |-> 0,
                                    obs |-> s.obs]),
              !.ns = Bind(@, s.py, Ref("param", Len(m.params) + 1))]

\* py = RooRealVar(name, title, f*chain.GetEntries(), 0, chain.GetEntries())
DoYield(m, s) ==
    IF ~Bound(m.ns, s.chain) THEN NameError(m)
    ELSE LET n == GetEntries(disk, m.chains[m.ns[s.chain].i])
         IN  DoVar(m, [py |-> s.py, name |-> s.name,
                       init |-> s.permille * n, lo |-> 0, hi |-> Milli * n,
                       obs |-> FALSE])

\* py = RooJohnson / RooBifurGauss / RooGaussian / RooExponential(name, ...)
DoPdf(m, s) ==
    IF ~AllBound(m.ns, s.args) THEN NameError(m)
    ELSE [m EXCEPT !.pdfs = Append(@, [name |-> s.name, kind |-> s.kind,
                                       vars |-> Resolve(m.ns, s.args),
                                       comps |-> <<>>, coefs |-> <<>>]),
                   !.ns = Bind(@, s.py, Ref("pdf", Len(m.pdfs) + 1))]

\* Mutant: a mixture whose fractions can sum to more than 1 is refused.
DoAddPdfChecked(m, s) ==
    IF ~AllBound(m.ns, s.comps \o s.coefs) THEN NameError(m)
    ELSE IF /\ Len(s.coefs) = Len(s.comps) - 1
            /\ SumSeq([j \in 1..Len(s.coefs) |->
                          m.params[m.ns[s.coefs[j]].i].hi]) > Milli
    THEN [m EXCEPT !.err = "ValueError"]
    ELSE [m EXCEPT !.pdfs = Append(@, [name |-> s.name, kind |-> "RooAddPdf",
                                       vars |-> <<>>,
                                       comps |-> Resolve(m.ns, s.comps),
                                       coefs |-> Resolve(m.ns, s.coefs)]),
                   !.ns = Bind(@, s.py, Ref("pdf", Len(m.pdfs) + 1))]

\* py = RooAddPdf(name, title, comps, coefs)
DoAddPdf(m, s) ==
    IF ~AllBound(m.ns, s.comps \o s.coefs) THEN NameError(m)
    ELSE [m EXCEPT !.pdfs = Append(@, [name |-> s.name, kind |-> "RooAddPdf",
                                       vars |-> <<>>,
                                       comps |-> Resolve(m.ns, s.comps),
                                       coefs |-> Resolve(m.ns, s.coefs)]),
                   !.ns = Bind(@, s.py, Ref("pdf", Len(m.pdfs) + 1))]

\* chain.Draw("D0_MM>>h(...)"); py = ROOT.gPad.GetPrimitive("h")
DoDraw(m, s) ==
    IF ~Bound(m.ns, s.chain) THEN NameError(m)
    ELSE [m EXCEPT !.ns = Bind(@, s.py, Ref("hist", m.ns[s.chain].i))]

\* py = RooDataHist(name, title, RooArgList(D0_M), hist)
DoDataHist(m, s) ==
    IF ~AllBound(m.ns, <<"D0_M", s.hist>>) THEN NameError(m)
    ELSE [m EXCEPT !.datas = Append(@, [name |-> s.name,
                                        chain |-> m.ns[s.hist].i]),
                   !.ns = Bind(@, s.py, Ref("data", Len(m.datas) + 1))]

\* binned_sample = RooCategory(...);
\* simultaneous_pdf = RooSimultaneous(..., binned_sample)
DoIndex(m, s) ==
    [m EXCEPT !.ns = Bind(Bind(@, "binned_sample", Ref("cat", 0)),
                          "simultaneous_pdf", Ref("sim", 0))]

\* binned_sample.defineType(label)
DoDefineType(m, s) ==
    IF ~Bound(m.ns, "binned_sample") THEN NameError(m)
    ELSE IF s.label \in SeqRange(m.cat) THEN m
    ELSE [m EXCEPT !.cat = Append(@, s.label)]

\* simultaneous_pdf.addPdf(pdf, label)
DoRegister(m, s) ==
    IF ~AllBound(m.ns, <<"simultaneous_pdf", s.pdf>>) THEN NameError(m)
    ELSE IF \E j \in 1..Len(m.sim) : m.sim[j].label = s.label THEN m
    ELSE [m EXCEPT !.sim = Append(@, [label |-> s.label,
                                      pdf |-> m.ns[s.pdf].i])]

\* imports = [RooFit.Import(label, data), ...];
\* simultaneous_data = RooDataHist(..., Index(binned_sample), *imports)
DoImport(m, s) ==
    IF ~AllBound(m.ns, s.datas \o <<"D0_M", "binned_sample">>)
    THEN NameError(m)
    ELSE [m EXCEPT !.imp = [j \in 1..Len(s.labels) |->
                               [label |-> s.labels[j],
                                data |-> m.ns[s.datas[j]].i]],
                   !.ns = Bind(@, "simultaneous_data", Ref("data", 0))]

Step(m, s) ==
    IF m.err # "" THEN m
    ELSE CASE s.op = "chain" -> DoChain(m, s)
           [] s.op = "add" -> DoAdd(m, s)
           [] s.op = "var" -> DoVar(m, s)
           [] s.op = "yield" -> DoYield(m, s)
           [] s.op = "pdf" -> DoPdf(m, s)
           [] s.op = "addpdf" -> DoAddPdf(m, s)
           [] s.op = "draw" -> DoDraw(m, s)
           [] s.op = "datahist" -> DoDataHist(m, s)
           [] s.op = "index" -> DoIndex(m, s)
           [] s.op = "defineType" -> DoDefineType(m, s)
           [] s.op = "register" -> DoRegister(m, s)
           [] s.op = "import" -> DoImport(m, s)

RECURSIVE Exec(_, _)
Exec(m, block) ==
    IF block = <<>> THEN m ELSE Exec(Step(m, Head(block)), Tail(block))

\* The variables a block can change take the values the block leaves; the
\* script goes on to `next`, or ends in "error" when a statement raised.
Run(block, next) ==
    \E m \in {Exec(Machine, block)} :
        /\ ns' = m.ns /\ params' = m.params /\ pdfs' = m.pdfs
        /\ chains' = m.chains /\ datas' = m.datas /\ cat' = m.cat
        /\ sim' = m.sim /\ imp' = m.imp /\ err' = m.err
        /\ pc' = IF m.err = "" THEN next ELSE "error"

\* Statement constructors.
Chain(py) == [op |-> "chain", py |-> py]
Add(py, path) == [op |-> "add", py |-> py, path |-> path]
Var(py, name, init, lo, hi) ==
    [op |-> "var", py |-> py, name |-> name, init |-> init, lo |-> lo,
     hi |-> hi, obs |-> FALSE]
Observable(py, name, lo, hi) ==
    [op |-> "var", py |-> py, name |-> name, init |-> lo, lo |-> lo,
     hi |-> hi, obs |-> TRUE]
Yield(py, permille, chain) ==
    [op |-> "yield", py |-> py, name |-> py, permille |-> permille,
     chain |-> chain]
Pdf(py, name, kind, a) ==
    [op |-> "pdf", py |-> py, name |-> name, kind |-> kind, args |-> a]
AddPdf(py, comps, coefs) ==
    [op |-> "addpdf", py |-> py, name |-> py, comps |-> comps,
     coefs |-> coefs]
Draw(py, chain) == [op |-> "draw", py |-> py, chain |-> chain]
DataHist(py, hist) ==
    [op |-> "datahist", py |-> py, name |-> py, hist |-> hist]
Index == [op |-> "index"]
DefineType(label) == [op |-> "defineType", label |-> label]
Register(pdf, label) == [op |-> "register", pdf |-> pdf, label |-> label]
Import(labels, ds) == [op |-> "import", labels |-> labels, datas |-> ds]

----------------------------------------------------------------------------
(* The command line.                                                       *)

\* binned = args.binned_fit == "y" or args.binned_fit == "Y"
binned == args.binned_fit = "y" \/ args.binned_fit = "Y"

\* f"{args.year}", f"{args.size}", f"{args.bin}"
YearStr == ToString(args.year)
SizeStr == IF script = "model7" THEN ToString(args.size) ELSE args.size
BinStr == args.bin

RECURSIVE GenerateLoopInclusive(_, _, _)
\* Mutant: the loop goes on while the last element is <= the argument.
GenerateLoopInclusive(result_list, current_value, size_value_local) ==
    IF result_list = <<>> \/ result_list[Len(result_list)] <= size_value_local
    THEN GenerateLoopInclusive(Append(result_list, current_value),
                               current_value + 10, size_value_local)
    ELSE result_list

\* str.isdigit is true of a character whose Unicode Numeric_Type is Decimal
\* or Digit: the decimal digits, and digits such as SUPERSCRIPT TWO, which
\* int() does not read.
DecimalChars == {"0", "1", "2", "3", "4", "5", "6", "7", "8", "9"}
DigitChars == DecimalChars \cup {"²"}

CharsOf(value) == [j \in 1..Len(value) |-> SubSeq(value, j, j)]

\* value.isdigit(): false of the empty string.
isdigit(value) ==
    Len(value) > 0 /\ \A j \in 1..Len(value) : CharsOf(value)[j] \in DigitChars

DigitValue(c) == CHOOSE d \in 0..9 : ToString(d) = c

RECURSIVE IntOfDecimals(_)
IntOfDecimals(value) ==
    IF value = "" THEN 0
    ELSE 10 * IntOfDecimals(SubSeq(value, 1, Len(value) - 1))
            + DigitValue(SubSeq(value, Len(value), Len(value)))

\* int(value) on a string isdigit accepted: its value, or ValueError when a
\* character is no decimal digit.
PyInt(value) ==
    IF \A j \in 1..Len(value) : CharsOf(value)[j] \in DecimalChars
    THEN [raised |-> "", returned |-> <<IntOfDecimals(value)>>]
    ELSE [raised |-> "ValueError", returned |-> <<>>]

\* Mutant: the test of divisibility by 10 left out.
size_argumentAnyStep(value) ==
    IF isdigit(value)
    THEN IF PyInt(value).raised # "" THEN PyInt(value)
         ELSE IF \A int_value \in SeqRange(PyInt(value).returned) :
                    1 <= int_value /\ int_value <= 800
              THEN PyInt(value)
              ELSE [raised |-> "ArgumentTypeError", returned |-> <<>>]
    ELSE [raised |-> "ArgumentTypeError", returned |-> <<>>]

\* size_argument: what it raises ("" when nothing) and what it returns.
size_argument(value) ==
    IF isdigit(value)
    THEN IF PyInt(value).raised # "" THEN PyInt(value)
         ELSE IF \A int_value \in SeqRange(PyInt(value).returned) :
                    /\ 1 <= int_value /\ int_value <= 800
                    /\ int_value % 10 = 0
              THEN PyInt(value)
              ELSE [raised |-> "ArgumentTypeError", returned |-> <<>>]
    ELSE [raised |-> "ArgumentTypeError", returned |-> <<>>]

RECURSIVE GenerateLoop(_, _, _)
GenerateLoop(result_list, current_value, size_value_local) ==
    IF result_list = <<>> \/ result_list[Len(result_list)] < size_value_local
    THEN GenerateLoop(Append(result_list, current_value),
                      current_value + 10, size_value_local)
    ELSE result_list

generate_list(size_value_local) == GenerateLoop(<<>>, 10, size_value_local)

----------------------------------------------------------------------------
(* fit_global_model7.py, block by block.                                   *)

M7_Setup ==
    << Chain("ttree_D0_up"), Chain("ttree_D0_down"),
       Chain("ttree_D0bar_up"), Chain("ttree_D0bar_down") >>

M7_TotalPath(pol, meson) ==
    args.input \o "/20" \o YearStr \o "/" \o pol \o "/" \o meson \o "/"
        \o meson \o "_" \o pol \o "_data_" \o YearStr \o "_" \o SizeStr
        \o "_clean.root"

M7_BinPath(pol, meson) ==
    args.input \o "/" \o meson \o "_" \o pol \o "_" \o YearStr \o "_"
        \o SizeStr \o "_bin" \o BinStr \o ".root"

\* Mutant: the file names built from the loop value, not from args.size.
M7_LoadBodyByLoopValue(valuesize) ==
    IF args.scheme = "total"
    THEN << Add("ttree_D0_up", args.input \o "/20" \o YearStr
                \o "/up/D0/D0_up_data_" \o YearStr \o "_"
                \o ToString(valuesize) \o "_clean.root"),
            Add("ttree_D0_down", args.input \o "/20" \o YearStr
                \o "/down/D0/D0_down_data_" \o YearStr \o "_"
                \o ToString(valuesize) \o "_clean.root"),
            Add("ttree_D0bar_up", args.input \o "/20" \o YearStr
                \o "/up/D0bar/D0bar_up_data_" \o YearStr \o "_"
                \o ToString(valuesize) \o "_clean.root"),
            Add("ttree_D0bar_down", args.input \o "/20" \o YearStr
                \o "/down/D0bar/D0bar_down_data_" \o YearStr \o "_"
                \o ToString(valuesize) \o "_clean.root") >>
    ELSE << Chain("ttree_D0_up"),
            Add("ttree_D0_up", M7_BinPath("up", "D0")),
            Chain("ttree_D0_down"),
            Add("ttree_D0_down", M7_BinPath("down", "D0")),
            Chain("ttree_D0bar_up"),
            Add("ttree_D0bar_up", M7_BinPath("up", "D0bar")),
            Chain("ttree_D0bar_down"),
            Add("ttree_D0bar_down", M7_BinPath("down", "D0bar")) >>

\* One iteration of `for valuesize in size_list`.
M7_LoadBody(valuesize) ==
    IF args.scheme = "total"
    THEN << Add("ttree_D0_up", M7_TotalPath("up", "D0")),
            Add("ttree_D0_down", M7_TotalPath("down", "D0")),
            Add("ttree_D0bar_up", M7_TotalPath("up", "D0bar")),
            Add("ttree_D0bar_down", M7_TotalPath("down", "D0bar")) >>
    ELSE << Chain("ttree_D0_up"),
            Add("ttree_D0_up", M7_BinPath("up", "D0")),
            Chain("ttree_D0_down"),
            Add("ttree_D0_down", M7_BinPath("down", "D0")),
            Chain("ttree_D0bar_up"),
            Add("ttree_D0bar_up", M7_BinPath("up", "D0bar")),
            Chain("ttree_D0bar_down"),
            Add("ttree_D0bar_down", M7_BinPath("down", "D0bar")) >>

M7_Shapes ==
    << Observable("D0_M", "D0_MM", 1815000, 1910000),
       Var("Jmu", "Jmu", 1865000, 1863000, 1867000),
       Var("Jlam", "Jlam", 18700, 10000, 20000),
       Var("Jgam", "Jgam", 450, 0, 10000),
       Var("Jdel", "Jdel", 2120, 0, 10000),
       Pdf("Johnson", "Johnson", "RooJohnson",
           <<"D0_M", "Jmu", "Jlam", "Jgam", "Jdel">>),
       Var("mean", "mean", 1865000, 1850000, 1880000),
       Var("sigmaL", "sigmaL", 5230, 0, 10000),
       Var("sigmaR", "sigmaR", 6800, 0, 10000),
       Pdf("bifurgauss", "Bifurgauss", "RooBifurGauss",
           <<"D0_M", "mean", "sigmaL", "sigmaR">>),
       Var("mean", "mean", 1865000, 1850000, 1880000),
       Var("sigma", "sigma", 6570, 0, 20000),
       Pdf("gaussian", "gauss", "RooGaussian", <<"D0_M", "mean", "sigma">>),
       Var("a0", "a0", -9, -1000, 0),
       Pdf("background", "exponential", "RooExponential",
           <<"D0_M", "a0">>) >>

M7_Fractions ==
    << Var("frac_D0_down", "frac_D0_down", 180, 100, 1000),
       Var("frac_D0_down_2", "frac_D0_down_2", 400, 0, 1000),
       Var("frac_D0_up", "frac_D0_up", 210, 100, 1000),
       Var("frac_D0_up_2", "frac_D0_up_2", 360, 0, 1000),
       Var("frac_D0bar_down", "frac_D0bar_down", 180, 100, 1000),
       Var("frac_D0bar_down_2", "frac_D0bar_down_2", 400, 0, 1000),
       Var("frac_D0bar_up", "frac_D0bar_up", 230, 100, 1000),
       Var("frac_D0bar_up_2", "frac_D0bar_up_2", 370, 0, 1000) >>

\* Mutant: the background yield of D0 MagUp sized from the D0bar MagUp
\* chain.
M7_YieldsCrossed ==
    << Yield("Nsig_D0_up", 950, "ttree_D0_up"),
       Yield("Nsig_D0bar_up", 950, "ttree_D0bar_up"),
       Yield("Nbkg_D0_up", 50, "ttree_D0bar_up"),
       Yield("Nbkg_D0bar_up", 50, "ttree_D0bar_up"),
       Yield("Nsig_D0_down", 950, "ttree_D0_down"),
       Yield("Nsig_D0bar_down", 950, "ttree_D0bar_down"),
       Yield("Nbkg_D0_down", 50, "ttree_D0_down"),
       Yield("Nbkg_D0bar_down", 50, "ttree_D0bar_down") >>

M7_Yields ==
    << Yield("Nsig_D0_up", 950, "ttree_D0_up"),
       Yield("Nsig_D0bar_up", 950, "ttree_D0bar_up"),
       Yield("Nbkg_D0_up", 50, "ttree_D0_up"),
       Yield("Nbkg_D0bar_up", 50, "ttree_D0bar_up"),
       Yield("Nsig_D0_down", 950, "ttree_D0_down"),
       Yield("Nsig_D0bar_down", 950, "ttree_D0bar_down"),
       Yield("Nbkg_D0_down", 50, "ttree_D0_down"),
       Yield("Nbkg_D0bar_down", 50, "ttree_D0bar_down") >>

M7_Hists ==
    << Draw("D0_Up_Hist", "ttree_D0_up"),
       Draw("D0_Down_Hist", "ttree_D0_down"),
       Draw("D0bar_Up_Hist", "ttree_D0bar_up"),
       Draw("D0bar_Down_Hist", "ttree_D0bar_down"),
       DataHist("Binned_D0_up", "D0_Up_Hist"),
       DataHist("Binned_D0_down", "D0_Down_Hist"),
       DataHist("Binned_D0bar_up", "D0bar_Up_Hist"),
       DataHist("Binned_D0bar_down", "D0bar_Down_Hist") >>

M7_Signal == <<"bifurgauss", "gaussian", "Johnson">>

\* Mutant: one fraction for each shape, the last no longer implied.
CategoryThreeFractions(label, signal, shapes, fracs, model, yields) ==
    << DefineType(label),
       AddPdf(signal, shapes, fracs \o <<fracs[Len(fracs)]>>),
       AddPdf(model, <<signal, "background">>, yields),
       Register(model, label) >>

\* defineType(label); signal = RooAddPdf(shapes, fracs);
\* model = RooAddPdf([signal, background], yields); addPdf(model, label)
Category(label, signal, shapes, fracs, model, yields) ==
    << DefineType(label),
       AddPdf(signal, shapes, fracs),
       AddPdf(model, <<signal, "background">>, yields),
       Register(model, label) >>

\* Mutant: the model of D0 MagDown is given the signal yield of D0 MagUp.
M7_ModelsSharedYield ==
    Category("Binned_D0_up_sample", "signal_D0_up", M7_Signal,
             <<"frac_D0_up", "frac_D0_up_2">>,
             "model_D0_up", <<"Nsig_D0_up", "Nbkg_D0_up">>)
    \o Category("Binned_D0_down_sample", "signal_D0_down", M7_Signal,
                <<"frac_D0_down", "frac_D0_down_2">>,
                "model_D0_down", <<"Nsig_D0_up", "Nbkg_D0_down">>)
    \o Category("Binned_D0bar_up_sample", "signal_D0bar_up", M7_Signal,
                <<"frac_D0bar_up", "frac_D0bar_up_2">>,
                "model_D0bar_up", <<"Nsig_D0bar_up", "Nbkg_D0bar_up">>)
    \o Category("Binned_D0bar_down_sample", "signal_D0bar_down", M7_Signal,
                <<"frac_D0bar_down", "frac_D0bar_down_2">>,
                "model_D0bar_down", <<"Nsig_D0bar_down", "Nbkg_D0bar_down">>)

M7_Models ==
    Category("Binned_D0_up_sample", "signal_D0_up", M7_Signal,
             <<"frac_D0_up", "frac_D0_up_2">>,
             "model_D0_up", <<"Nsig_D0_up", "Nbkg_D0_up">>)
    \o Category("Binned_D0_down_sample", "signal_D0_down", M7_Signal,
                <<"frac_D0_down", "frac_D0_down_2">>,
                "model_D0_down", <<"Nsig_D0_down", "Nbkg_D0_down">>)
    \o Category("Binned_D0bar_up_sample", "signal_D0bar_up", M7_Signal,
                <<"frac_D0bar_up", "frac_D0bar_up_2">>,
                "model_D0bar_up", <<"Nsig_D0bar_up", "Nbkg_D0bar_up">>)
    \o Category("Binned_D0bar_down_sample", "signal_D0bar_down", M7_Signal,
                <<"frac_D0bar_down", "frac_D0bar_down_2">>,
                "model_D0bar_down", <<"Nsig_D0bar_down", "Nbkg_D0bar_down">>)

M7_Import ==
    << Import(<<"Binned_D0_up_sample", "Binned_D0bar_up_sample",
                "Binned_D0_down_sample", "Binned_D0bar_down_sample">>,
              <<"Binned_D0_up", "Binned_D0bar_up", "Binned_D0_down",
                "Binned_D0bar_down">>) >>

\* variables = [a0, frac_D0_down, ...]
M7_Variables ==
    <<"a0", "frac_D0_down", "frac_D0_down_2", "frac_D0_up", "frac_D0_up_2",
      "frac_D0bar_down", "frac_D0bar_down_2", "frac_D0bar_up",
      "frac_D0bar_up_2", "Nsig_D0_down", "Nbkg_D0_down", "Nsig_D0_up",
      "Nbkg_D0_up", "Nsig_D0bar_down", "Nbkg_D0bar_down", "Nsig_D0bar_up",
      "Nbkg_D0bar_up", "sigmaL", "sigmaR", "Jmu", "Jlam", "Jgam", "Jdel",
      "mean", "sigma">>

----------------------------------------------------------------------------
(* fit_global.py, block by block.                                          *)

G_CleanPath(meson, pol, year) ==
    args.input \o "/" \o meson \o "_" \o pol \o "_data_" \o year \o "_"
        \o SizeStr \o "_clean.root"

G_BinPath(meson) ==
    args.input \o "/" \o meson \o "_" \o YearStr \o "_" \o SizeStr
        \o "_bin" \o BinStr \o ".root"

G_AddAll(py, meson) ==
    << Add(py, G_CleanPath(meson, "up", "16")),
       Add(py, G_CleanPath(meson, "up", "17")),
       Add(py, G_CleanPath(meson, "up", "18")),
       Add(py, G_CleanPath(meson, "down", "16")),
       Add(py, G_CleanPath(meson, "down", "17")),
       Add(py, G_CleanPath(meson, "down", "18")) >>

\* if args.year == 19: if args.scheme == "total": ... else: ...
G_Load ==
    IF args.year = 19
    THEN IF args.scheme = "total"
         THEN <<Chain("ttree_D0")>> \o G_AddAll("ttree_D0", "D0")
                \o <<Chain("ttree_D0bar")>> \o G_AddAll("ttree_D0bar", "D0bar")
         ELSE << Chain("ttree_D0"), Add("ttree_D0", G_BinPath("D0")),
                 Chain("ttree_D0bar_up"),
                 Add("ttree_D0bar_up", G_BinPath("D0bar")) >>
    ELSE <<>>

G_Shapes ==
    << Observable("D0_M", "D0_MM", 1815000, 1910000),
       Var("Jmu", "Jmu", 1865000, 1860000, 1870000),
       Var("Jlam", "Jlam", 16300, 10000, 20000),
       Var("Jgam", "Jgam", 300, 0, 10000),
       Var("Jdel", "Jdel", 1600, 0, 10000),
       Pdf("Johnson", "Johnson", "RooJohnson",
           <<"D0_M", "Jmu", "Jlam", "Jgam", "Jdel">>),
       Var("bifurmean", "bifurmean", 1865200, 1860000, 1870000),
       Var("sigmaL", "sigmaL", 8240, 0, 10000),
       Var("sigmaR", "sigmaR", 6100, 0, 10000),
       Pdf("bifurgauss", "Bifurgauss", "RooBifurGauss",
           <<"D0_M", "bifurmean", "sigmaL", "sigmaR">>),
       Var("bifurmean2", "bifurmean2", 1865500, 1860000, 1870000),
       Var("sigmaL2", "sigmaL2", 6000, 0, 10000),
       Var("sigmaR2", "sigmaR2", 8490, 0, 10000),
       Pdf("bifurgauss2", "Bifurgaussian2", "RooBifurGauss",
           <<"D0_M", "bifurmean2", "sigmaL2", "sigmaR2">>),
       Var("a0", "a0", -9, -1000, 0),
       Pdf("background", "exponential", "RooExponential",
           <<"D0_M", "a0">>) >>

G_Fractions ==
    << Var("frac_D0", "frac_D0", 160, 0, 1000),
       Var("frac_D0_2", "frac_D0_2", 400, 0, 1000),
       Var("frac_D0bar", "frac_D0bar", 300, 0, 1000),
       Var("frac_D0bar_2", "frac_D0bar_2", 600, 0, 1000) >>

G_Yields ==
    << Yield("Nsig_D0", 950, "ttree_D0"),
       Yield("Nsig_D0bar", 950, "ttree_D0bar"),
       Yield("Nbkg_D0", 50, "ttree_D0"),
       Yield("Nbkg_D0bar", 50, "ttree_D0bar") >>

G_Hists ==
    << Draw("D0_Hist", "ttree_D0"),
       Draw("D0bar_Hist", "ttree_D0bar"),
       DataHist("Binned_D0", "D0_Hist"),
       DataHist("Binned_D0bar", "D0bar_Hist") >>

G_Signal == <<"Johnson", "bifurgauss", "bifurgauss2">>

G_Models ==
    Category("Binned_D0_sample", "signal_D0", G_Signal,
             <<"frac_D0", "frac_D0_2">>, "model_D0", <<"Nsig_D0", "Nbkg_D0">>)
    \o Category("Binned_D0bar_sample", "signal_D0bar", G_Signal,
                <<"frac_D0bar", "frac_D0bar_2">>,
                "model_D0bar", <<"Nsig_D0bar", "Nbkg_D0bar">>)

G_Import ==
    << Import(<<"Binned_D0_sample", "Binned_D0bar">>,
              <<"Binned_D0", "Binned_D0bar">>) >>

\* parameters = np.array([a0.getValV(), ..., bifurmean2.getValV(),
\*                        Nsig_D0.getError(), Nsig_D0bar.getError()])
G_Values ==
    <<"a0", "frac_D0", "frac_D0_2", "frac_D0bar", "frac_D0bar_2", "Nsig_D0",
      "Nbkg_D0", "Nsig_D0bar", "Nbkg_D0bar", "sigmaL", "sigmaR", "sigmaL2",
      "sigmaR2", "Jmu", "Jlam", "Jgam", "Jdel", "bifurmean", "bifurmean2">>

G_Errors == <<"Nsig_D0", "Nsig_D0bar">>

----------------------------------------------------------------------------
(* The block of the running script.                                        *)

Shapes == IF script = "model7" THEN M7_Shapes ELSE G_Shapes
Fractions == IF script = "model7" THEN M7_Fractions ELSE G_Fractions
Yields == IF script = "model7" THEN M7_Yields ELSE G_Yields
Hists == IF script = "model7" THEN M7_Hists ELSE G_Hists
Models == IF script = "model7" THEN M7_Models ELSE G_Models
Imports == IF script = "model7" THEN M7_Import ELSE G_Import

----------------------------------------------------------------------------
(* The joint model and the fit driver.                                     *)

RECURSIVE PdfVars(_, _)
\* Every RooRealVar pdf i depends on, through its components.
PdfVars(ps, i) ==
    SeqRange(ps[i].vars) \cup SeqRange(ps[i].coefs)
        \cup UNION {PdfVars(ps, ps[i].comps[j]) : j \in 1..Len(ps[i].comps)}

\* The parameters of pdf i: what it depends on, the observable apart.
PdfParams(ps, pm, i) == {j \in PdfVars(ps, i) : ~pm[j].obs}

\* The parameters of the joint model: those of every registered category.
JointParams(ps, pm, sm) ==
    UNION {PdfParams(ps, pm, sm[j].pdf) : j \in 1..Len(sm)}

\* numbins = 300 (fit_global_model7.py), numbins = 240 (fit_global.py)
numbins == IF script = "model7" THEN 300 ELSE 240

\* The numeric-integration configuration a function carries from its
\* construction until a statement changes it: RooFit's own choice of
\* integrator, no bin count set, numeric integration not forced.
RooNumIntConfig ==
    [method1D |-> "RooIntegrator1D", numBins |-> 0, forceNumInt |-> FALSE]

\* custom_config.method1D().setLabel("RooBinIntegrator");
\* ...setRealValue("numBins", num_bins); func.setIntegratorConfig(...);
\* func.forceNumInt(True)
enableBinIntegrator(func, num_bins) ==
    [func EXCEPT !.method1D = "RooBinIntegrator", !.numBins = num_bins,
                 !.forceNumInt = TRUE]

\* func.setIntegratorConfig(); func.forceNumInt(False)
disableBinIntegrator(func) == RooNumIntConfig

\* MINUIT's status (0: converged) and the covariance quality (3: accurate)
\* of a RooFitResult.
FitStatuses == {0, 4}
CovQuals == {0, 3}

\* Mutant: the five points spread past the upper bound, as a minimizer
\* that ignores the declared range would leave them.
FittedPastBound(k, i, p) ==
    IF k = 0 THEN p
    ELSE [p EXCEPT !.val = p.lo + ((p.hi - p.lo) * (((i * k) % 5) + 1)) \div 4,
                   !.error = ((p.hi - p.lo) \div 100) + i * k]

\* Where the minimizer leaves parameter i: pattern 0 leaves it where it
\* started, pattern k > 0 at one of five points of [lo, hi], the bounds
\* included, by i.
Fitted(k, i, p) ==
    IF k = 0 THEN p
    ELSE [p EXCEPT !.val = p.lo + ((p.hi - p.lo) * ((i * k) % 5)) \div 4,
                   !.error = ((p.hi - p.lo) \div 100) + i * k]

Snapshot(pm) == [j \in 1..Len(pm) |-> [val |-> pm[j].val,
                                       error |-> pm[j].error]]

----------------------------------------------------------------------------
(* The export.                                                             *)

\* d[key] = value on a dict held as its items in insertion order.
DictSet(d, key, value) ==
    IF \E j \in 1..Len(d) : d[j].key = key
    THEN [j \in 1..Len(d) |->
             IF d[j].key = key THEN [d[j] EXCEPT !.value = value] ELSE d[j]]
    ELSE Append(d, [key |-> key, value |-> value])

RECURSIVE DictOf(_, _, _)
\* {name: value for name, value in zip(names, values)}, built onto d.
DictOf(d, names, values) ==
    IF names = <<>> \/ values = <<>> THEN d
    ELSE DictOf(DictSet(d, Head(names), Head(values)),
                Tail(names), Tail(values))

\* Mutant: the filter dropped, an error line for every variable.
HasErrorLineAny(name) == Len(name) >= 0

\* Mutant: the background yields given an error line as well.
HasErrorLineYields(name) ==
    StartsWith(name, "Nsig_") \/ StartsWith(name, "Nbkg_")

\* if name.startswith("Nsig_")

HasErrorLine(name) == StartsWith(name, "Nsig_")

\* file.write(f"{key}: {value}\n")
ValueLine(key, value) == key \o ": " \o PyFloatStr(value)

\* file.write(f"{name}_error: {error}\n")
ErrorLine(name, error) == name \o "_error: " \o PyFloatStr(error)

RECURSIVE ErrorLines(_, _)
ErrorLines(names, errors) ==
    IF names = <<>> \/ errors = <<>> THEN <<>>
    ELSE (IF HasErrorLine(Head(names))
          THEN <<ErrorLine(Head(names), Head(errors))>> ELSE <<>>)
         \o ErrorLines(Tail(names), Tail(errors))

\* Mutant: the two loops of the with-block in the other order.
M7_FileLinesErrorsFirst(e) ==
    ErrorLines(e.names, e.errors)
        \o [j \in 1..Len(e.dict) |-> ValueLine(e.dict[j].key, e.dict[j].value)]

\* The lines the with-block of fit_global_model7.py writes.
M7_FileLines(e) ==
    [j \in 1..Len(e.dict) |-> ValueLine(e.dict[j].key, e.dict[j].value)]
        \o ErrorLines(e.names, e.errors)

\* The lines np.savetxt writes: one number a line.
G_FileLines(e) == [j \in 1..Len(e.array) |-> SciStr(e.array[j])]

NoExport ==
    [names |-> <<>>, values |-> <<>>, errors |-> <<>>, dict |-> <<>>,
     array |-> <<>>]

----------------------------------------------------------------------------
(* The runs.                                                               *)

Years == IF script = "model7" THEN {16, 17, 18} ELSE {16, 17, 18, 19}
Schemes == {"total", "pT_eta", "pT", "eta"}
BinnedFits == {"y", "Y", "n", "N"}
Sizes ==
    IF script = "model7" THEN {10 * k : k \in 1..MaxSizeSteps}
    ELSE {"large", "8"}

Init ==
    /\ script \in {"fit_global", "model7"}
    /\ \E y \in Years, sz \in Sizes, b \in BinnedFits, sch \in Schemes :
          args = [year |-> y, size |-> sz, binned_fit |-> b, scheme |-> sch,
                  bin |-> "None", input |-> ".", path |-> "."]
    /\ disk \in 0..MaxDisk
    /\ pc = "start"
    /\ err = ""
    /\ ns = <<>>
    /\ params = <<>>
    /\ pdfs = <<>>
    /\ chains = <<>>
    /\ datas = <<>>
    /\ cat = <<>>
    /\ sim = <<>>
    /\ imp = <<>>
    /\ loopIdx = 0
    /\ fit = [calls |-> 0, status |-> 0, covQual |-> 0, final |-> <<>>,
              integrator |-> RooNumIntConfig]
    /\ out = <<>>
    /\ exp = NoExport
    /\ file = <<>>

\* Mutant: the fit is run a second time before its result is printed.
AfterFitRefit == IF fit.calls = 0 THEN "fit" ELSE "print"

\* The statement after the fitTo call: fitResult.Print().
AfterFit == "print"

Frame == UNCHANGED <<script, args, disk>>
NoFit == UNCHANGED <<fit, out, exp, file>>

\* fit_global_model7.py 147-160: the four chains and size_list.
M7_Start ==
    /\ script = "model7" /\ pc = "start"
    /\ Run(M7_Setup,
           IF generate_list(args.size) = <<>> THEN "shapes" ELSE "load")
    /\ UNCHANGED loopIdx /\ Frame /\ NoFit

\* fit_global_model7.py 161-206: one iteration of the loading loop.
M7_LoadIter ==
    /\ script = "model7" /\ pc = "load"
    /\ LET size_list == generate_list(args.size)
       IN  /\ loopIdx < Len(size_list)
           /\ Run(M7_LoadBody(size_list[loopIdx + 1]),
                  IF loopIdx + 1 < Len(size_list) THEN "load" ELSE "shapes")
    /\ loopIdx' = loopIdx + 1
    /\ Frame /\ NoFit

\* fit_global.py 100-136.
G_Start ==
    /\ script = "fit_global" /\ pc = "start"
    /\ Run(G_Load, "shapes")
    /\ UNCHANGED loopIdx /\ Frame /\ NoFit

\* The observable, the shape parameters and the shapes.
DeclareShapes ==
    /\ pc = "shapes"
    /\ Run(Shapes, "fractions")
    /\ UNCHANGED loopIdx /\ Frame /\ NoFit

DeclareFractions ==
    /\ pc = "fractions"
    /\ Run(Fractions, "yields")
    /\ UNCHANGED loopIdx /\ Frame /\ NoFit

\* The yields, and then `if binned:`.
DeclareYields ==
    /\ pc = "yields"
    /\ Run(Yields, IF binned THEN "hists" ELSE "print")
    /\ UNCHANGED loopIdx /\ Frame /\ NoFit

BuildHists ==
    /\ pc = "hists"
    /\ Run(Hists, "index")
    /\ UNCHANGED loopIdx /\ Frame /\ NoFit

CreateIndex ==
    /\ pc = "index"
    /\ Run(<<Index>>, "models")
    /\ UNCHANGED loopIdx /\ Frame /\ NoFit

BuildModels ==
    /\ pc = "models"
    /\ Run(Models, "import")
    /\ UNCHANGED loopIdx /\ Frame /\ NoFit

ImportData ==
    /\ pc = "import"
    /\ Run(Imports, "fit")
    /\ UNCHANGED loopIdx /\ Frame /\ NoFit

\* fitResult = simultaneous_pdf.fitTo(simultaneous_data, ..., Save=True,
\* Extended=True): the minimizer moves every parameter of the joint model
\* and returns a result whatever its status.  The calls of
\* enableBinIntegrator before it and of disableBinIntegrator after it are
\* commented out: the fit runs with the integrator configuration the model
\* was constructed with.
Fit ==
    /\ pc = "fit"
    /\ \E st \in FitStatuses, cq \in CovQuals, k \in 0..MaxPattern :
          \E float \in {JointParams(pdfs, params, sim)} :
          \E after \in {[i \in 1..Len(params) |->
                            IF i \in float THEN Fitted(k, i, params[i])
                            ELSE params[i]]} :
              /\ params' = after
              /\ fit' = [calls |-> fit.calls + 1, status |-> st,
                         covQual |-> cq, final |-> Snapshot(after),
                         integrator |-> fit.integrator]
    /\ ns' = Bind(ns, "fitResult", Ref("result", fit.calls + 1))
    /\ pc' = AfterFit
    /\ UNCHANGED <<err, pdfs, chains, datas, cat, sim, imp, loopIdx, out,
                   exp, file>>
    /\ Frame

\* Mutant: a fit that did not converge is refused.
PrintResultStrict ==
    /\ pc = "print"
    /\ IF Bound(ns, "fitResult") /\ fit.status = 0
       THEN /\ out' = Append(out, [status |-> fit.status,
                                   covQual |-> fit.covQual])
            /\ pc' = "collect" /\ err' = err
       ELSE /\ out' = out /\ pc' = "error"
            /\ err' = IF Bound(ns, "fitResult") THEN "RuntimeError"
                      ELSE "NameError"
    /\ UNCHANGED <<ns, params, pdfs, chains, datas, cat, sim, imp, loopIdx,
                   fit, exp, file>>
    /\ UNCHANGED <<script, args, disk>>

\* fitResult.Print()
PrintResult ==
    /\ pc = "print"
    /\ IF Bound(ns, "fitResult")
       THEN /\ out' = Append(out, [status |-> fit.status,
                                   covQual |-> fit.covQual])
            /\ pc' = "collect" /\ err' = err
       ELSE /\ out' = out /\ pc' = "error" /\ err' = "NameError"
    /\ UNCHANGED <<ns, params, pdfs, chains, datas, cat, sim, imp, loopIdx,
                   fit, exp, file>>
    /\ Frame

\* fit_global_model7.py 329-335: variables, values, errors, names and
\* parameters_dict.
M7_Collect ==
    /\ script = "model7" /\ pc = "collect"
    /\ IF AllBound(ns, M7_Variables)
       THEN \E ids \in {Resolve(ns, M7_Variables)} :
            \E values \in {[j \in 1..Len(ids) |-> params[ids[j]].val]} :
            \E errors \in {[j \in 1..Len(ids) |-> params[ids[j]].error]} :
            \E names \in {[j \in 1..Len(ids) |-> params[ids[j]].name]} :
                /\ exp' = [names |-> names, values |-> values,
                           errors |-> errors,
                           dict |-> DictOf(<<>>, names, values),
                           array |-> <<>>]
                /\ ns' = Bind(Bind(ns, "names", Ref("list", 0)),
                              "parameters_dict", Ref("dict", 0))
                /\ pc' = "write" /\ err' = err
       ELSE /\ exp' = exp /\ ns' = ns /\ pc' = "error" /\ err' = "NameError"
    /\ UNCHANGED <<params, pdfs, chains, datas, cat, sim, imp, loopIdx, fit,
                   out, file>>
    /\ Frame

\* fit_global.py 219-221: the parameters array, for year 19 and scheme
\* total only.
G_Collect ==
    /\ script = "fit_global" /\ pc = "collect"
    /\ IF args.year = 19 /\ args.scheme = "total"
       THEN IF AllBound(ns, G_Values \o G_Errors)
            THEN LET v == Resolve(ns, G_Values)
                     e == Resolve(ns, G_Errors)
                 IN  /\ exp' = [NoExport EXCEPT !.array =
                                   [j \in 1..Len(v) |-> params[v[j]].val]
                                   \o [j \in 1..Len(e) |-> params[e[j]].error]]
                     /\ ns' = Bind(ns, "parameters", Ref("array", 0))
                     /\ pc' = "write" /\ err' = err
            ELSE /\ exp' = exp /\ ns' = ns
                 /\ pc' = "error" /\ err' = "NameError"
       ELSE /\ exp' = exp /\ ns' = ns /\ pc' = "write" /\ err' = err
    /\ UNCHANGED <<params, pdfs, chains, datas, cat, sim, imp, loopIdx, fit,
                   out, file>>
    /\ Frame

\* fit_global_model7.py 338-344: the file, and the closing print.
M7_Write ==
    /\ script = "model7" /\ pc = "write"
    /\ file' = M7_FileLines(exp)
    /\ pc' = "done"
    /\ UNCHANGED <<err, ns, params, pdfs, chains, datas, cat, sim, imp,
                   loopIdx, fit, out, exp>>
    /\ Frame

\* fit_global.py 224-225: np.savetxt, and the closing print.
G_Write ==
    /\ script = "fit_global" /\ pc = "write"
    /\ IF Bound(ns, "parameters")
       THEN /\ file' = G_FileLines(exp) /\ pc' = "done" /\ err' = err
       ELSE /\ file' = file /\ pc' = "error" /\ err' = "NameError"
    /\ UNCHANGED <<ns, params, pdfs, chains, datas, cat, sim, imp, loopIdx,
                   fit, out, exp>>
    /\ Frame

Next ==
    \/ M7_Start
    \/ M7_LoadIter
    \/ G_Start
    \/ DeclareShapes
    \/ DeclareFractions
    \/ DeclareYields
    \/ BuildHists
    \/ CreateIndex
    \/ BuildModels
    \/ ImportData
    \/ Fit
    \/ PrintResult
    \/ M7_Collect
    \/ G_Collect
    \/ M7_Write
    \/ G_Write

Spec == Init /\ [][Next]_vars

----------------------------------------------------------------------------
(* The two functions of fit_global_model7.py on their own: size_argument   *)
(* applied to any string of the command line, generate_list to any         *)
(* integer, and generate_list to what size_argument returned, as lines     *)
(* 157-160 call it.                                                        *)

Alphabet == {"0", "1", "5", "8", "a", "-", "²"}

RECURSIVE Strings(_)
\* The strings over Alphabet of at most n characters.
Strings(n) ==
    IF n = 0 THEN {""}
    ELSE Strings(n - 1)
            \cup {t \o c : t \in Strings(n - 1), c \in Alphabet}

FnInit ==
    /\ script \in {"size_argument", "generate_list"}
    /\ \/ script = "size_argument"
          /\ \E value \in Strings(MaxLen) : args = [value |-> value]
       \/ script = "generate_list"
          /\ \E s \in -MaxArg..MaxArg : args = [size_value_local |-> s]
    /\ disk = 0
    /\ pc = "call"
    /\ err = ""
    /\ ns = <<>>
    /\ params = <<>>
    /\ pdfs = <<>>
    /\ chains = <<>>
    /\ datas = <<>>
    /\ cat = <<>>
    /\ sim = <<>>
    /\ imp = <<>>
    /\ loopIdx = 0
    /\ fit = [calls |-> 0, status |-> 0, covQual |-> 0, final |-> <<>>,
              integrator |-> RooNumIntConfig]
    /\ out = <<>>
    /\ exp = NoExport
    /\ file = <<>>

FnFrame ==
    UNCHANGED <<script, args, disk, ns, params, pdfs, chains, datas, cat,
                sim, imp, loopIdx, fit, exp, file>>

\* type=size_argument applied to the --size string.
CallSizeArgument ==
    /\ script = "size_argument" /\ pc = "call"
    /\ \E r \in {size_argument(args.value)} :
          /\ out' = <<r>>
          /\ err' = r.raised
          /\ pc' = IF r.raised = "" THEN "returned" ELSE "raised"
    /\ FnFrame

\* size_value = args.size; size_list = generate_list(size_value)
SizeList ==
    /\ script = "size_argument" /\ pc = "returned"
    /\ out' = Append(out, generate_list(out[1].returned[1]))
    /\ pc' = "listed"
    /\ UNCHANGED err
    /\ FnFrame

\* generate_list(s) for any integer s.
CallGenerateList ==
    /\ script = "generate_list" /\ pc = "call"
    /\ out' = <<generate_list(args.size_value_local)>>
    /\ pc' = "listed"
    /\ UNCHANGED err
    /\ FnFrame

FnNext ==
    \/ CallSizeArgument
    \/ SizeList
    \/ CallGenerateList

FnSpec == FnInit /\ [][FnNext]_vars

----------------------------------------------------------------------------
(* get_chi2 of plot_pT_eta.py, called by the minimizer with one constant c *)
(* after another on the arrays asymmetry and asymmetry_error the script    *)
(* read.  Numbers are exact fractions [n, d], d > 0, in lowest terms; a    *)
(* quotient by zero is [n, 0], the inf or nan numpy returns for it.        *)

RECURSIVE GCD(_, _)
GCD(a, b) == IF b = 0 THEN a ELSE GCD(b, a % b)

Sign(a) == IF a < 0 THEN -1 ELSE IF a > 0 THEN 1 ELSE 0

\* The fraction n / d, reduced, its denominator positive.
Rat(n, d) ==
    IF d = 0 THEN [n |-> Sign(n), d |-> 0]
    ELSE IF n = 0 THEN [n |-> 0, d |-> 1]
    ELSE [n |-> (Sign(d) * n) \div GCD(Abs(n), Abs(d)),
          d |-> Abs(d) \div GCD(Abs(n), Abs(d))]

RatAdd(x, y) == Rat(x.n * y.d + y.n * x.d, x.d * y.d)
RatMul(x, y) == Rat(x.n * y.n, x.d * y.d)
\* (a - pol0) / e on numbers read from the files
Quotient(a, e) == Rat(a, e)

\* Mutant: no bin is skipped.
SkipBinNever(error) == error # error

\* if asymmetry_error[i] == 0: continue
SkipBin(error) == error = 0

\* ndof = -1 # 1 for c
NdofStart == -1

RECURSIVE Chi2Loop(_, _, _, _, _, _)
\* for i in range(bins): the iterations from i on (i counts from 1).
Chi2Loop(i, bins, c, chi2, ndof, arrays) ==
    IF i > bins THEN [chi2 |-> chi2, ndof |-> ndof]
    ELSE IF SkipBin(arrays.asymmetry_error[i])
    THEN Chi2Loop(i + 1, bins, c, chi2, ndof, arrays)
    ELSE \* pol0 = c; residual = (asymmetry[i] - pol0) / asymmetry_error[i]
         LET residual == Quotient(arrays.asymmetry[i] - c,
                                  arrays.asymmetry_error[i])
         IN  Chi2Loop(i + 1, bins, c, RatAdd(chi2, RatMul(residual, residual)),
                      ndof + 1, arrays)

\* get_chi2(c): the store it leaves and the value it returns.
get_chi2(c, store, arrays) ==
    LET end == Chi2Loop(1, Len(arrays.asymmetry), c, Rat(0, 1), NdofStart,
                        arrays)
    IN  [store |-> DictSet(DictSet(store, "chi2", end.chi2),
                           "ndof", end.ndof),
         returned |-> end.chi2]

\* The values and the errors the asymmetry files hold, and the constants
\* the minimizer tries.
AsymmetryValues == {-1, 0, 2}
AsymmetryErrors == {-1, 0, 2}
TrialConstants == {-1, 0, 1}

Chi2Init ==
    /\ script = "get_chi2"
    /\ \E bins \in 1..MaxBins :
       \E a \in [1..bins -> AsymmetryValues] :
       \E e \in [1..bins -> AsymmetryErrors] :
           args = [asymmetry |-> a, asymmetry_error |-> e]
    /\ disk = 0
    /\ pc = "minuit"
    /\ err = ""
    /\ ns = Bind(<<>>, "store", <<>>)
    /\ params = <<>>
    /\ pdfs = <<>>
    /\ chains = <<>>
    /\ datas = <<>>
    /\ cat = <<>>
    /\ sim = <<>>
    /\ imp = <<>>
    /\ loopIdx = 0
    /\ fit = [calls |-> 0, status |-> 0, covQual |-> 0, final |-> <<>>,
              integrator |-> RooNumIntConfig]
    /\ out = <<>>
    /\ exp = NoExport
    /\ file = <<>>

\* m = Minuit(get_chi2, c=0); m.migrad(): one call of get_chi2, with the
\* constant the minimizer chose; out holds the call's argument and what it
\* returned, loopIdx the calls made.
CallGetChi2 ==
    /\ script = "get_chi2" /\ pc \in {"minuit", "returned"}
    /\ loopIdx < MaxCalls
    /\ \E c \in TrialConstants :
       \E r \in {get_chi2(c, ns["store"], args)} :
           /\ ns' = Bind(ns, "store", r.store)
           /\ out' = <<[c |-> c, returned |-> r.returned]>>
    /\ loopIdx' = loopIdx + 1
    /\ pc' = "returned"
    /\ UNCHANGED <<script, args, disk, err, params, pdfs, chains, datas, cat,
                   sim, imp, fit, exp, file>>

\* prob = 1 - chi2.cdf(store["chi2"], store["ndof"]): the store is read
\* after the minimizer has returned.
ReadStore ==
    /\ script = "get_chi2" /\ pc = "returned"
    /\ pc' = "done"
    /\ UNCHANGED <<script, args, disk, err, ns, params, pdfs, chains, datas,
                   cat, sim, imp, loopIdx, fit, out, exp, file>>

Chi2Next ==
    \/ CallGetChi2
    \/ ReadStore

Chi2Spec == Chi2Init /\ [][Chi2Next]_vars

----------------------------------------------------------------------------
(* Reading fit_parameters.txt back: each line a key and a value, split at  *)
(* the first ": ".                                                         *)

RECURSIVE FindSep(_, _)
\* The position of the first ": " of line at or after i, 0 when none.
FindSep(line, i) ==
    IF i + 1 > Len(line) THEN 0
    ELSE IF SubSeq(line, i, i + 1) = ": " THEN i
    ELSE FindSep(line, i + 1)

KeyOf(line) ==
    LET i == FindSep(line, 1)
    IN  IF i = 0 THEN "" ELSE SubSeq(line, 1, i - 1)

TextOf(line) ==
    LET i == FindSep(line, 1)
    IN  IF i = 0 THEN line ELSE SubSeq(line, i + 2, Len(line))

RECURSIVE FindDot(_, _)
FindDot(t, i) ==
    IF i > Len(t) THEN 0
    ELSE IF SubSeq(t, i, i) = "." THEN i
    ELSE FindDot(t, i + 1)

Digit(c) == CHOOSE d \in 0..9 : ToString(d) = c

RECURSIVE ParseNat(_)
ParseNat(t) ==
    IF t = "" THEN 0
    ELSE 10 * ParseNat(SubSeq(t, 1, Len(t) - 1))
            + Digit(SubSeq(t, Len(t), Len(t)))

\* float(text), in thousandths.
ParseFloat(text) ==
    LET neg == StartsWith(text, "-")
        body == IF neg THEN Tail(text) ELSE text
        dot == FindDot(body, 1)
        whole == IF dot = 0 THEN body ELSE SubSeq(body, 1, dot - 1)
        frac == IF dot = 0 THEN "" ELSE SubSeq(body, dot + 1, Len(body))
        v == Milli * ParseNat(whole)
                + ParseNat(SubSeq(ZeroPadRight(frac, 3), 1, 3))
    IN  IF neg THEN -v ELSE v

RECURSIVE ParseLines(_, _)
\* The mapping a reader builds, a later line overwriting an earlier one of
\* the same key.
ParseLines(d, lines) ==
    IF lines = <<>> THEN d
    ELSE ParseLines(DictSet(d, KeyOf(Head(lines)),
                            ParseFloat(TextOf(Head(lines)))),
                    Tail(lines))

HasKey(d, key) == \E j \in 1..Len(d) : d[j].key = key
Lookup(d, key) == d[CHOOSE j \in 1..Len(d) : d[j].key = key].value

IsErrorLine(line) == EndsWith(KeyOf(line), "_error")

\* name_error without its suffix.
BaseName(key) == SubSeq(key, 1, Len(key) - Len("_error"))

----------------------------------------------------------------------------
(* Who references what.                                                    *)

\* refs[j]: the parameters the model of the j-th registered category
\* depends on.
CategoryParams ==
    [j \in 1..Len(sim) |-> PdfParams(pdfs, params, sim[j].pdf)]

\* The registered categories whose model depends on parameter i.
Referencing(refs, i) == {j \in DOMAIN refs : i \in refs[j]}

IsYieldName(name) == StartsWith(name, "Nsig_") \/ StartsWith(name, "Nbkg_")

\* The yields: the coefficients of the registered extended models.
YieldParams ==
    UNION {SeqRange(pdfs[sim[j].pdf].coefs) : j \in 1..Len(sim)}

\* The parameters of the shapes (Johnson, Gaussians, exponential).
ShapeParams ==
    {i \in 1..Len(params) :
        ~params[i].obs /\ \E q \in 1..Len(pdfs) : i \in SeqRange(pdfs[q].vars)}

\* The argument combinations under which both categories' chains exist.
LoadsEveryCategory ==
    script = "model7" \/ (args.year = 19 /\ args.scheme = "total")

Ended == pc \in {"done", "error"}

----------------------------------------------------------------------------
(* C1.  When the joint fit is invoked, every label defined on the          *)
(* category index has exactly one model registered and exactly one dataset *)
(* imported under it, and no dataset is imported under a label that was    *)
(* never defined.  fit_global.py imports its second dataset under          *)
(* "Binned_D0bar", a label it never defines.                               *)
C1_EveryLabelBound ==
    pc = "fit" =>
        /\ \A l \in SeqRange(cat) :
              /\ Cardinality({j \in 1..Len(sim) : sim[j].label = l}) = 1
              /\ Cardinality({j \in 1..Len(imp) : imp[j].label = l}) = 1
        /\ \A j \in 1..Len(imp) : imp[j].label \in SeqRange(cat)

(* C2.  After a completed fit the file holds, for every parameter object   *)
(* of the joint model, exactly one line "name: value" with that object's   *)
(* final value.  The first `mean` object (the bifurcated Gaussian's) is    *)
(* not in the export list, and fit_global.py writes bare numbers.          *)
C2_EveryParameterExported ==
    pc = "done" =>
        \A i \in JointParams(pdfs, params, sim) :
            /\ Cardinality({j \in 1..Len(file) :
                               KeyOf(file[j]) = params[i].name}) = 1
            /\ \E j \in 1..Len(file) :
                  file[j] = ValueLine(params[i].name, params[i].val)

(* C3.  With binned_fit n or N a run whose chains all exist ends normally  *)
(* with one fit made and the file written.  Both scripts fit only inside   *)
(* `if binned:` and then read fitResult.                                   *)
C3_UnbinnedReachesExport ==
    (~binned /\ LoadsEveryCategory /\ Ended) =>
        (pc = "done" /\ fit.calls = 1 /\ file # <<>>)

\* The indices of the file's "name: value" lines.
ValueLineIdx == {j \in 1..Len(file) : ~IsErrorLine(file[j])}

\* The construction index of the exported variable of that name.
DeclPos(name) ==
    CHOOSE i \in SeqRange(Resolve(ns, M7_Variables)) : params[i].name = name

(* C4 as stated.  The "name: value" lines are in the order in which the    *)
(* parameters were declared.                                               *)
C4_DeclarationOrder ==
    (pc = "done" /\ script = "model7") =>
        \A pos \in {[j \in ValueLineIdx |-> DeclPos(KeyOf(file[j]))]} :
            \A a, b \in DOMAIN pos : a < b => pos[a] < pos[b]

(* C4 as amended.  The "name: value" lines are in the order of the export  *)
(* list `variables`: the j-th line is that of the j-th variable.           *)
C4_ExportListOrder ==
    (pc = "done" /\ script = "model7") =>
        /\ ValueLineIdx = 1..Len(M7_Variables)
        /\ \A j \in 1..Len(M7_Variables) :
              KeyOf(file[j]) = params[ns[M7_Variables[j]].i].name

C4_Witness ==
    /\ pc = "done" /\ script = "model7"
    /\ \E a, b \in 1..Len(file) :
          a < b /\ KeyOf(file[a]) = "a0" /\ KeyOf(file[b]) = "Jmu"

(* C5.  Every "name_error" line comes after all "name: value" lines and    *)
(* belongs to a yield; no shape parameter or mixing fraction has one.      *)
C5_ErrorLinesLastYieldsOnly ==
    (pc = "done" /\ script = "model7") =>
        \A keys \in {[j \in 1..Len(file) |-> KeyOf(file[j])]} :
        \A values \in {{j \in 1..Len(file) : ~EndsWith(keys[j], "_error")}} :
        \A yields \in {{params[i].name : i \in YieldParams}} :
        \A others \in {{params[i].name \o "_error" :
                          i \in JointParams(pdfs, params, sim) \ YieldParams}} :
            /\ \A j \in (1..Len(file)) \ values :
                  /\ \A k \in values : k < j
                  /\ BaseName(keys[j]) \in yields
            /\ \A j \in 1..Len(file) : keys[j] \notin others

C5_Witness ==
    /\ pc = "done" /\ script = "model7"
    /\ \E j \in 1..Len(file) : KeyOf(file[j]) = "Nsig_D0_up_error"

(* C6.  Reading the written file back, every exported name maps to the    *)
(* value written for it and every "name_error" key to that variable's      *)
(* error, and the keys of the file are pairwise distinct.                  *)
C6_RoundTrip ==
    (pc = "done" /\ script = "model7") =>
        \A parsed \in {ParseLines(<<>>, file)} :
        \A keys \in {[j \in 1..Len(file) |-> KeyOf(file[j])]} :
            /\ \A j, k \in 1..Len(file) : j # k => keys[j] # keys[k]
            /\ \A j \in 1..Len(exp.names) :
                  /\ HasKey(parsed, exp.names[j])
                  /\ Lookup(parsed, exp.names[j]) = exp.values[j]
                  /\ HasKey(parsed, exp.names[j] \o "_error") =>
                        Lookup(parsed, exp.names[j] \o "_error")
                            = exp.errors[j]

C6_Witness ==
    /\ pc = "done" /\ script = "model7"
    /\ \E j \in 1..Len(exp.values) :
          exp.values[j] < 0 /\ exp.values[j] % Milli # 0
    /\ \E j \in 1..Len(file) : IsErrorLine(file[j])

\* What the export lists hold when read from the fit's final values.
ExportOfFinal ==
    IF script = "model7"
    THEN LET ids == Resolve(ns, M7_Variables)
             names == [j \in 1..Len(ids) |-> params[ids[j]].name]
             values == [j \in 1..Len(ids) |-> fit.final[ids[j]].val]
         IN  [names |-> names, values |-> values,
              errors |-> [j \in 1..Len(ids) |-> fit.final[ids[j]].error],
              dict |-> DictOf(<<>>, names, values), array |-> <<>>]
    ELSE LET v == Resolve(ns, G_Values)
             e == Resolve(ns, G_Errors)
         IN  [NoExport EXCEPT !.array =
                 [j \in 1..Len(v) |-> fit.final[v[j]].val]
                 \o [j \in 1..Len(e) |-> fit.final[e[j]].error]]

(* C7.  A run that ends normally has invoked the joint fit exactly once;   *)
(* the export lists are built only after the fit returned and hold the     *)
(* values and errors the fit returned with; no parameter changes between   *)
(* the return of the fit and the end of the run.                           *)
C7_FitOnceThenReadOnly ==
    /\ pc = "done" => fit.calls = 1
    /\ exp # NoExport => (fit.calls = 1 /\ exp = ExportOfFinal)
    /\ (fit.calls > 0 /\ pc # "fit") => Snapshot(params) = fit.final

C7_Witness ==
    /\ pc = "done" /\ fit.calls = 1 /\ file # <<>>
    /\ \E i \in 1..Len(params) : params[i].error # 0

(* C8.  In the Model7 script, when the fit is invoked, the parameters      *)
(* referenced by exactly one                                               *)
(* category's model are the yields and nothing else; every other parameter *)
(* is referenced by all four.  The eight mixing fractions are referenced   *)
(* by one category each.                                                   *)
C8_OnlyYieldsPerCategory ==
    (script = "model7" /\ pc = "fit") =>
        \A refs \in {CategoryParams} :
        \A i \in JointParams(pdfs, params, sim) :
            IF IsYieldName(params[i].name)
            THEN Cardinality(Referencing(refs, i)) = 1
            ELSE Cardinality(Referencing(refs, i)) = Len(sim)

(* C9.  When the fit is invoked, each yield is referenced by the model of  *)
(* exactly one category;                                                   *)
(* every shape parameter, a0 among them, is referenced by the model of     *)
(* every registered category.                                              *)
C9_YieldsOwnedShapesShared ==
    pc = "fit" =>
        \A refs \in {CategoryParams} :
            /\ Len(sim) > 0
            /\ \A i \in 1..Len(params) :
                  IsYieldName(params[i].name) =>
                      Cardinality(Referencing(refs, i)) = 1
            /\ \A i \in ShapeParams : Referencing(refs, i) = 1..Len(sim)
            /\ \E i \in ShapeParams : params[i].name = "a0"

C9_Witness ==
    /\ pc = "fit" /\ Len(sim) = 4
    /\ \E i \in 1..Len(params) : params[i].name = "Nbkg_D0bar_down"
    /\ Cardinality(ShapeParams) = 10

FitFailed == fit.calls > 0 /\ (fit.status # 0 \/ fit.covQual # 3)

(* C10.  When the minimizer does not converge or the covariance matrix is  *)
(* invalid the run does not abort: it goes on to the end, the result is    *)
(* printed with its status, and the file written is the file of the values *)
(* the minimizer left, line for line as after a converged fit.             *)
C10_FailedFitStillExported ==
    FitFailed =>
        /\ pc # "error"
        /\ pc \in {"print", "collect", "write", "done"}
        /\ pc \in {"collect", "write", "done"} =>
              out = <<[status |-> fit.status, covQual |-> fit.covQual]>>
        /\ pc = "done" =>
              file = IF script = "model7" THEN M7_FileLines(ExportOfFinal)
                     ELSE G_FileLines(ExportOfFinal)

C10_Witness ==
    /\ pc = "done" /\ fit.status # 0 /\ fit.covQual # 3
    /\ Len(file) > 0

(* C11.  In binned mode, when the joint fit is invoked and ever after,     *)
(* the fitted model carries the configuration enableBinIntegrator sets:    *)
(* numeric integration forced, the 1-D method RooBinIntegrator, numBins    *)
(* equal to numbins.  Both scripts leave the call commented out.           *)
C11_BinIntegratorEnabled ==
    (binned /\ (pc = "fit" \/ fit.calls > 0)) =>
        /\ fit.integrator = enableBinIntegrator(RooNumIntConfig, numbins)
        /\ fit.integrator.forceNumInt
        /\ fit.integrator.method1D = "RooBinIntegrator"
        /\ fit.integrator.numBins = numbins

\* The object the identifier a0 is bound to.
A0 == params[ns["a0"].i]

(* C12 as stated.  a0 is below zero at every value inside its declared     *)
(* bounds, and so at every value the fit returns for it.                   *)
C12_StrictlyNegative ==
    Bound(ns, "a0") =>
        \A p \in {A0} :
            /\ pc = "fractions" => \A v \in p.lo..p.hi : v < 0
            /\ fit.calls > 0 => p.val < 0

(* C12 as amended.  a0 is declared with the bounds [-1, 0] and the initial *)
(* value -0.009; every value inside the bounds is at most zero, and zero   *)
(* is reached at the upper bound only; the value the fit returns stays     *)
(* inside the bounds, so it is never positive, and it may be zero.         *)
C12_NeverPositive ==
    Bound(ns, "a0") =>
        \A p \in {A0} :
            /\ p.name = "a0" /\ p.lo = -Milli /\ p.hi = 0
            /\ p.lo <= p.val /\ p.val <= p.hi /\ p.val <= 0
            /\ fit.calls = 0 => p.val < 0
            /\ pc = "fractions" =>
                  \A v \in p.lo..p.hi : v <= 0 /\ (v = 0 <=> v = p.hi)
            /\ pc = "fit" => ns["a0"].i \in JointParams(pdfs, params, sim)

C12_Witness ==
    /\ Bound(ns, "a0") /\ fit.calls > 0 /\ pc = "done"
    /\ A0.val = 0 /\ A0.val = A0.hi

\* The signal mixture of the j-th registered category: the first component
\* of its extended model.
SignalOf(j) == pdfs[sim[j].pdf].comps[1]

\* The mixing fractions of the j-th registered category.
FractionsOf(j) == pdfs[SignalOf(j)].coefs

IsFractionName(name) == StartsWith(name, "frac_")

(* C13.  Every mixing fraction is declared with bounds inside [0, 1]; for  *)
(* every category the two fractions of its mixture can, within those       *)
(* bounds, sum to more than 1; no statement rejects such a mixture (a      *)
(* binned run whose chains exist never ends in an error) and none corrects *)
(* it (the fractions stay where the fit left them and are exported so).    *)
C13_FractionSumUnchecked ==
    /\ (binned /\ LoadsEveryCategory) => pc # "error"
    /\ \A i \in 1..Len(params) :
          IsFractionName(params[i].name) =>
              /\ 0 <= params[i].lo /\ params[i].lo <= params[i].hi
              /\ params[i].hi <= Milli
    /\ pc = "fit" =>
          /\ Len(sim) > 0
          /\ \A j \in 1..Len(sim) :
                \A fr \in {FractionsOf(j)} :
                    /\ Len(fr) = 2
                    /\ \A q \in 1..Len(fr) : IsFractionName(params[fr[q]].name)
                    /\ params[fr[1]].hi + params[fr[2]].hi > Milli
    /\ (fit.calls > 0 /\ pc # "fit") =>
          \A j \in 1..Len(sim) :
              \A fr \in {FractionsOf(j)} :
                  \A q \in 1..Len(fr) :
                      /\ params[fr[q]].val = fit.final[fr[q]].val
                      /\ (pc = "done" /\ script = "model7") =>
                            \E l \in 1..Len(file) :
                                file[l] = ValueLine(params[fr[q]].name,
                                                    fit.final[fr[q]].val)

C13_Witness ==
    /\ pc = "done" /\ script = "model7" /\ Len(sim) = 4
    /\ \E j \in 1..Len(sim) :
          params[FractionsOf(j)[1]].val + params[FractionsOf(j)[2]].val > Milli

\* The signal mixtures built: the RooAddPdf objects named signal_*.
SignalMixtures ==
    {q \in 1..Len(pdfs) :
        pdfs[q].kind = "RooAddPdf" /\ StartsWith(pdfs[q].name, "signal_")}

OnlyDigits(value) ==
    /\ Len(value) > 0
    /\ \A j \in 1..Len(value) :
          \E d \in 0..9 : SubSeq(value, j, j) = ToString(d)

Accepted(value) ==
    /\ OnlyDigits(value)
    /\ \A v \in {ParseNat(value)} : 1 <= v /\ v <= 800 /\ v % 10 = 0

\* Only characters str.isdigit accepts, one of them no digit 0-9.
HasUnreadDigit(value) ==
    /\ Len(value) > 0
    /\ ~OnlyDigits(value)
    /\ \A j \in 1..Len(value) :
          \/ SubSeq(value, j, j) = "²"
          \/ \E d \in 0..9 : SubSeq(value, j, j) = ToString(d)

SizeCalled == script = "size_argument" /\ pc # "call"

(* C15 as stated.  size_argument returns the integer value of a string of  *)
(* digits whose value is in 1..800 and a multiple of 10, and raises        *)
(* ArgumentTypeError, returning nothing, for every other string.           *)
C15_AcceptsOrArgumentTypeError ==
    SizeCalled =>
        IF Accepted(args.value)
        THEN out[1] = [raised |-> "", returned |-> <<ParseNat(args.value)>>]
        ELSE out[1] = [raised |-> "ArgumentTypeError", returned |-> <<>>]

(* C15 as amended.  As stated, but a string that str.isdigit accepts and   *)
(* int() cannot read (SUPERSCRIPT TWO among its characters) leaves         *)
(* size_argument with the ValueError of int(), not ArgumentTypeError.      *)
C15_AcceptsOrRaises ==
    SizeCalled =>
        IF Accepted(args.value)
        THEN out[1] = [raised |-> "", returned |-> <<ParseNat(args.value)>>]
        ELSE IF HasUnreadDigit(args.value)
        THEN out[1] = [raised |-> "ValueError", returned |-> <<>>]
        ELSE out[1] = [raised |-> "ArgumentTypeError", returned |-> <<>>]

C15_Witness ==
    /\ script = "size_argument" /\ pc = "raised"
    /\ args.value = "1²" /\ err = "ValueError" /\ out[1].returned = <<>>

\* 10, 20, ..., 10 * Len(list)
StepsOfTen(list) == \A j \in 1..Len(list) : list[j] = 10 * j

(* C16.  generate_list returns, for every integer s, the list 10, 20, ..., *)
(* k with k the smallest multiple of 10 that is >= max(s, 10); the list is *)
(* never empty; called on a value v that size_argument returned it ends    *)
(* with v and has v / 10 elements.                                         *)
C16_ListOfTens ==
    /\ (script = "generate_list" /\ pc = "listed") =>
          \A list \in {out[1]} :
          \A top \in {IF args.size_value_local > 10
                       THEN args.size_value_local ELSE 10} :
              /\ Len(list) >= 1
              /\ StepsOfTen(list)
              /\ \A k \in {list[Len(list)]} :
                    k % 10 = 0 /\ k >= top /\ k - 10 < top
    /\ (script = "size_argument" /\ pc = "listed") =>
          \A list \in {out[2]} :
          \A v \in {ParseNat(args.value)} :
              /\ Len(list) >= 1
              /\ StepsOfTen(list)
              /\ list[Len(list)] = v
              /\ Len(list) * 10 = v

C16_Witness ==
    /\ script = "size_argument" /\ pc = "listed"
    /\ args.value = "800" /\ Len(out[2]) = 80 /\ out[2][80] = 800

\* The identifiers of the four chains of fit_global_model7.py.
M7_ChainNames ==
    {"ttree_D0_up", "ttree_D0_down", "ttree_D0bar_up", "ttree_D0bar_down"}

\* The files of the chain an identifier is bound to.
FilesOf(py) == chains[ns[py].i]

C18_EveryAcceptedRunWrites ==
    (script = "fit_global" /\ binned /\ Ended) =>
        /\ pc = "done" /\ err = ""
        /\ fit.calls = 1
        /\ file # <<>>

\* The keys of the file's lines, in the order of the file.
FileKeys == [j \in 1..Len(file) |-> KeyOf(file[j])]

(* C19.  The file of the Model7 script has 25 "name: value" lines followed *)
(* by 4 "name_error" lines; the variables with an error line are exactly   *)
(* the four signal yields Nsig_*; no background yield Nbkg_* has one.      *)
C19_FourSignalErrorLines ==
    (pc = "done" /\ script = "model7") =>
        \A keys \in {FileKeys} :
            /\ Len(keys) = 25 + 4
            /\ \A j \in 1..25 : ~EndsWith(keys[j], "_error")
            /\ \A j \in 26..Len(keys) : EndsWith(keys[j], "_error")
            /\ {keys[j] : j \in 1..25}
                  = {params[i].name : i \in {x \in 1..Len(params) :
                                                ~params[x].obs}}
            /\ {BaseName(keys[j]) : j \in 26..Len(keys)}
                  = {"Nsig_D0_down", "Nsig_D0_up", "Nsig_D0bar_down",
                     "Nsig_D0bar_up"}
            /\ \A i \in 1..Len(params) :
                  (params[i].name \o "_error") \in SeqRange(keys)
                      <=> StartsWith(params[i].name, "Nsig_")
            /\ \A i \in 1..Len(params) :
                  StartsWith(params[i].name, "Nbkg_") =>
                      /\ params[i].name \in SeqRange(keys)
                      /\ (params[i].name \o "_error") \notin SeqRange(keys)

C19_Witness ==
    /\ pc = "done" /\ script = "model7" /\ Len(file) = 29
    /\ KeyOf(file[26]) = "Nsig_D0_down_error"
    /\ KeyOf(file[29]) = "Nsig_D0bar_up_error"
    /\ \E j \in 1..25 : KeyOf(file[j]) = "Nbkg_D0bar_up"

\* The four categories of the Model7 script, by the part of the name their
\* label, chain, dataset, yields and fractions share.
M7_Categories == {"D0_up", "D0_down", "D0bar_up", "D0bar_down"}

\* The entry count of a category's own chain.
EntriesOf(c) == GetEntries(disk, FilesOf("ttree_" \o c))

\* The registrations and the imports under a label.
RegisteredAs(label) == {j \in 1..Len(sim) : sim[j].label = label}
ImportedAs(label) == {j \in 1..Len(imp) : imp[j].label = label}

LiveBins == {i \in 1..Len(args.asymmetry) : args.asymmetry_error[i] # 0}

RECURSIVE Product(_, _)
\* The product of f over the set S.
Product(f, S) ==
    IF S = {} THEN 1
    ELSE LET x == CHOOSE y \in S : TRUE IN f[x] * Product(f, S \ {x})

RECURSIVE Sum(_, _)
Sum(f, S) ==
    IF S = {} THEN 0
    ELSE LET x == CHOOSE y \in S : TRUE IN f[x] + Sum(f, S \ {x})

\* The squared errors of the live bins, and the sum of the squared
\* normalised residuals over their common denominator: the sum over the live
\* bins i of (a[i] - c)^2 times the squared errors of the other live bins.
SquaredErrors == [i \in LiveBins |-> args.asymmetry_error[i] ^ 2]

ResidualsOver(c) ==
    Sum([i \in LiveBins |-> ((args.asymmetry[i] - c) ^ 2)
                               * Product(SquaredErrors, LiveBins \ {i})],
        LiveBins)

(* C21.  After a call get_chi2(c): store["chi2"] is the value returned; it *)
(* is the sum, over the bins whose error is not zero, of the squared       *)
(* normalised residuals ((asymmetry[i] - c) / asymmetry_error[i])^2, and   *)
(* never negative; store["ndof"] is the number of those bins minus 1; a    *)
(* bin of zero error adds nothing; with every error zero the call returns  *)
(* 0 with ndof = -1; no quotient has a zero divisor.                       *)
C21_Chi2Stored ==
    (script = "get_chi2" /\ pc \in {"returned", "done"}) =>
        \A store \in {ns["store"]} :
        \A call \in {out[1]} :
        \A live \in {LiveBins} :
            /\ err = ""
            /\ Len(store) = 2
            /\ Lookup(store, "chi2") = call.returned
            /\ Lookup(store, "ndof") = Cardinality(live) - 1
            /\ call.returned.d > 0
            /\ call.returned.n >= 0
            /\ call.returned.n * Product(SquaredErrors, live)
                  = ResidualsOver(call.c) * call.returned.d
            /\ live = {} =>
                  /\ call.returned = [n |-> 0, d |-> 1]
                  /\ Lookup(store, "ndof") = -1

C21_Witness ==
    /\ script = "get_chi2" /\ pc = "done" /\ loopIdx = 2
    /\ Len(args.asymmetry) = 3 /\ Cardinality(LiveBins) = 2
    /\ out[1].returned.n > 0 /\ out[1].returned.d > 1
    /\ Lookup(ns["store"], "ndof") = 1

============================================================================
